---------------------------- MODULE Spec2Model ----------------------------
(***************************************************************************)
(* Model of vispy/cli.py: the inheritance resolver get_all_bases, the      *)
(* member aggregator collect_inherited_elements, and the focus-class       *)
(* sharing/unique analysis of main() and of the two renderers.             *)
(*                                                                         *)
(* A class table is a function from class names to records                 *)
(* [bases, methods, variables]; bases is a sequence (a Python list),       *)
(* methods and variables are sets of names.                                *)
(***************************************************************************)
EXTENDS Integers, Sequences, FiniteSets, TLC

\* ------------------------------------------------------------------ bounds
\* Longest bases list of a class declaration in the resolver's tables.
MaxBases == 2
\* Most base references a generated table holds in all.
MaxEdges == 4

\* ------------------------------------------------------------ value spaces
\* Names of the classes a table may declare.
ClassNames == {"A", "B", "C"}
\* A name no table declares: an external base, or an unknown focus class.
Absent == "X"
\* What HierarchyExtractor.get_name returns for an expression that is no
\* name: Python's None.  "None" is a keyword, never an identifier, so the
\* string cannot collide with a class name.
None == "None"
\* Mutant of Truthy: the `base and` test of line 92 dropped.
TruthyAlways(base) == TRUE
\* Python truthiness of a bases entry (line 92: `if base and ...`).
Truthy(base) == base # None /\ base # ""

BaseEntries == ClassNames \cup {Absent, None}

RECURSIVE SeqsUpTo(_, _)
SeqsUpTo(S, n) ==
    IF n = 0 THEN {<<>>}
    ELSE LET shorter == SeqsUpTo(S, n - 1)
         IN  shorter \cup {Append(s, x) : s \in {t \in shorter : Len(t) = n - 1}, x \in S}

Range(s) == {s[i] : i \in 1..Len(s)}

\* ------------------------------------------------------------------- state
VARIABLES
    \* --- one top-level call get_all_bases(gab_start, gab_classes) ---
    gab_classes,   \* the `classes` argument
    gab_start,     \* the `class_name` argument of the top-level call
    gab_pc,        \* "call" before the call, "run" inside it, "done" after
    gab_stack,     \* the Python call stack: one frame per active invocation
    gab_visited,   \* the `visited` set shared by all invocations
    gab_result,    \* the set the top-level call returned
    gab_expanded,  \* per class name, how often line 91 started iterating it
    \* --- one run of main() ---
    input_files,        \* args.files, each file as what reading and parsing it yields
    focus_classes,      \* args.focus
    include_inherited,  \* args.include_inherited
    pc,                 \* the phase main() is about to enter
    file_index,         \* position of the next input file
    classes,            \* the class table
    printed,            \* the messages printed so far
    report_written,     \* whether output.txt has been written
    focus_methods,      \* main's focus_methods
    focus_variables,    \* main's focus_variables
    all_focus_methods,  \* main's shared-method map
    all_focus_variables,\* main's shared-variable map
    unique_methods,     \* main's unique-method map
    unique_variables,   \* main's unique-variable map
    viz,                \* the analysis of the renderer called last
    rendered,           \* the renderers that ran to their end, in order
    raised              \* the exception that ended main(), "none" while there is none

gabVars == <<gab_classes, gab_start, gab_pc, gab_stack, gab_visited,
             gab_result, gab_expanded>>

mainVars == <<input_files, focus_classes, include_inherited, pc, file_index,
              classes, printed, report_written, focus_methods, focus_variables,
              all_focus_methods, all_focus_variables, unique_methods,
              unique_variables, viz, rendered, raised>>

vars == <<gabVars, mainVars>>

\* No renderer has been called yet.
NoViz ==
    [renderer |-> "none", raised |-> "none",
     all_focus_methods |-> <<>>, all_focus_variables |-> <<>>,
     unique_methods |-> <<>>, unique_variables |-> <<>>]

\* main()'s locals before its first statement, for the inputs given.
MainStart(files, focus, inherited) ==
    /\ input_files = files
    /\ focus_classes = focus
    /\ include_inherited = inherited
    /\ file_index = 1
    /\ classes = <<>>
    /\ printed = <<>>
    /\ report_written = FALSE
    /\ focus_methods = <<>>
    /\ focus_variables = <<>>
    /\ all_focus_methods = <<>>
    /\ all_focus_variables = <<>>
    /\ unique_methods = <<>>
    /\ unique_variables = <<>>
    /\ viz = NoViz
    /\ rendered = <<>>
    /\ raised = "none"

\* main() is not run.
MainIdle == pc = "idle" /\ MainStart(<<>>, <<>>, FALSE)

\* get_all_bases is not called on its own.
GabIdle ==
    /\ gab_classes = <<>>
    /\ gab_start = Absent
    /\ gab_pc = "idle"
    /\ gab_stack = <<>>
    /\ gab_visited = {}
    /\ gab_result = {}
    /\ gab_expanded = <<>>

\* ---------------------------------------------------- get_all_bases, stepwise
\* The bases lists of the classes `names`, drawn from `entries`, holding at
\* most `budget` entries together and at most MaxBases each: functions from
\* names to lists.
RECURSIVE BasesChoices(_, _, _)
BasesChoices(names, entries, budget) ==
    IF names = {} THEN {<<>>}
    ELSE LET c == CHOOSE x \in names : TRUE
             lists == SeqsUpTo(entries, IF budget < MaxBases THEN budget ELSE MaxBases)
         IN  UNION {{(c :> l) @@ rest : rest \in BasesChoices(names \ {c}, entries, budget - Len(l))} :
                       l \in lists}

\* A table that declares bases only (get_all_bases reads nothing else).
BasesOnly(b) ==
    [c \in DOMAIN b |-> [bases |-> b[c], methods |-> {}, variables |-> {}]]

\* A diamond over four classes: D(B, C), B(A), C(A), A.
DiamondTable ==
    BasesOnly([A |-> <<>>, B |-> <<"A">>, C |-> <<"A">>, D |-> <<"B", "C">>])

\* Tables of the resolver specification: every table over ClassNames within
\* the bounds (self-loops, cycles, repeated, absent and None bases among
\* them), and the diamond.
GabTables ==
    {BasesOnly(b) : b \in BasesChoices(ClassNames, BaseEntries, MaxEdges)} \cup {DiamondTable}

\* Every name a call may be started on.
GabNames == ClassNames \cup {"D", Absent}

\* A frame of get_all_bases: its class_name, the index of the next element of
\* classes[class_name]['bases'] the for loop takes, and its local `bases`.
Frame(c) == [cls |-> c, i |-> 1, bases |-> {}]

Top == gab_stack[Len(gab_stack)]
Pop == SubSeq(gab_stack, 1, Len(gab_stack) - 1)
ReplaceTop(f) == [gab_stack EXCEPT ![Len(gab_stack)] = f]


\* Deepest call stack the model follows (Python's own limit is its recursion
\* limit); the resolver never comes near it.
MaxDepth == 8

\* Mutant of Unvisited: the visited test of line 92 dropped.
UnvisitedAlways(base, visited) == TRUE
\* Line 92, second conjunct: `base not in visited`.
Unvisited(base, visited) == base \notin visited

\* Line 89: `class_name not in classes`.
InTable(c, table) == c \in DOMAIN table

\* Line 91 reached by a new invocation for c: one more expansion of c.
Expand(c) ==
    IF InTable(c, gab_classes)
    THEN [gab_expanded EXCEPT ![c] = @ + 1]
    ELSE gab_expanded

GabInit ==
    /\ MainIdle
    /\ gab_classes \in GabTables
    /\ gab_start \in GabNames
    /\ gab_pc = "call"
    /\ gab_stack = <<>>
    /\ gab_visited = {}
    /\ gab_result = {}
    /\ gab_expanded = [c \in GabNames |-> 0]

\* The top-level call: visited is None, so a fresh empty set (lines 86-88).
GabCall ==
    /\ UNCHANGED mainVars
    /\ gab_pc = "call"
    /\ gab_pc' = "run"
    /\ gab_stack' = <<Frame(gab_start)>>
    /\ gab_visited' = {}
    /\ gab_expanded' = Expand(gab_start)
    /\ UNCHANGED <<gab_classes, gab_start, gab_result>>

\* The value `ret` leaves the innermost invocation: the caller's
\* bases.update(...) of line 95 and the next loop element, or the end of the
\* top-level call.
GabLeave(ret) ==
    IF Len(gab_stack) = 1
    THEN /\ gab_pc' = "done"
         /\ gab_result' = ret
         /\ gab_stack' = <<>>
    ELSE LET caller == gab_stack[Len(gab_stack) - 1]
         IN  /\ gab_stack' = [Pop EXCEPT ![Len(gab_stack) - 1] =
                                 [caller EXCEPT !.bases = @ \cup ret, !.i = @ + 1]]
             /\ UNCHANGED <<gab_pc, gab_result>>

\* Lines 89-90: the class is no key of the table; return the empty set.
GabReturnAbsent ==
    /\ UNCHANGED mainVars
    /\ gab_pc = "run"
    /\ ~InTable(Top.cls, gab_classes)
    /\ GabLeave({})
    /\ UNCHANGED <<gab_classes, gab_start, gab_visited, gab_expanded>>

\* Line 92 false: the entry is None/empty or already visited; next element.
GabSkip ==
    /\ UNCHANGED mainVars
    /\ gab_pc = "run"
    /\ InTable(Top.cls, gab_classes)
    /\ Top.i <= Len(gab_classes[Top.cls].bases)
    /\ LET base == gab_classes[Top.cls].bases[Top.i]
       IN  ~(Truthy(base) /\ Unvisited(base, gab_visited))
    /\ gab_stack' = ReplaceTop([Top EXCEPT !.i = @ + 1])
    /\ UNCHANGED <<gab_classes, gab_start, gab_pc, gab_visited, gab_result,
                   gab_expanded>>

\* Lines 92-95: mark the base visited, add it to bases, recurse into it.
GabDescend ==
    /\ UNCHANGED mainVars
    /\ gab_pc = "run"
    /\ Len(gab_stack) < MaxDepth
    /\ InTable(Top.cls, gab_classes)
    /\ Top.i <= Len(gab_classes[Top.cls].bases)
    /\ LET base == gab_classes[Top.cls].bases[Top.i]
       IN  /\ Truthy(base) /\ Unvisited(base, gab_visited)
           /\ gab_visited' = gab_visited \cup {base}
           /\ gab_stack' = Append(ReplaceTop([Top EXCEPT !.bases = @ \cup {base}]),
                                  Frame(base))
           /\ gab_expanded' = Expand(base)
    /\ UNCHANGED <<gab_classes, gab_start, gab_pc, gab_result>>

\* Line 96: the loop is over; return bases.
GabReturn ==
    /\ UNCHANGED mainVars
    /\ gab_pc = "run"
    /\ InTable(Top.cls, gab_classes)
    /\ Top.i > Len(gab_classes[Top.cls].bases)
    /\ GabLeave(Top.bases)
    /\ UNCHANGED <<gab_classes, gab_start, gab_visited, gab_expanded>>

GabNext ==
    \/ GabCall
    \/ GabReturnAbsent
    \/ GabSkip
    \/ GabDescend
    \/ GabReturn

\* The resolver alone: one top-level call on any table of GabTables.
SpecGab == GabInit /\ [][GabNext]_vars

\* The same, with the interpreter always taking the next step.
SpecGabFair == GabInit /\ [][GabNext]_vars /\ WF_vars(GabNext)


\* ------------------------------------------- get_all_bases, as a function
\* get_all_bases computed as the code computes it: a depth-first walk that
\* threads the one `visited` set through every invocation.  GabVisit is one
\* invocation (lines 88-96), GabLoop its for loop from element i on; both
\* yield the invocation's bases together with `visited` as it then stands.
RECURSIVE GabVisit(_, _, _), GabLoop(_, _, _, _, _)
GabVisit(class_name, table, visited) ==
    IF ~InTable(class_name, table)
    THEN [bases |-> {}, visited |-> visited]
    ELSE GabLoop(table[class_name].bases, 1, table, {}, visited)
GabLoop(list, i, table, bases, visited) ==
    IF i > Len(list)
    THEN [bases |-> bases, visited |-> visited]
    ELSE LET base == list[i]
         IN  IF Truthy(base) /\ Unvisited(base, visited)
             THEN LET r == GabVisit(base, table, visited \cup {base})
                  IN  GabLoop(list, i + 1, table, bases \cup {base} \cup r.bases,
                              r.visited)
             ELSE GabLoop(list, i + 1, table, bases, visited)

\* Mutant of GetAllBases: the direct bases only, no recursion (line 95 lost).
GetDirectBases(class_name, table) ==
    IF InTable(class_name, table)
    THEN {base \in Range(table[class_name].bases) : Truthy(base)}
    ELSE {}
\* get_all_bases(class_name, classes) with visited=None.
GetAllBases(class_name, table) == GabVisit(class_name, table, {}).bases

\* classes.get(base, {}).get('methods', set()) and the same for 'variables'
\* (lines 113-114).
MethodsOrEmpty(base, table) ==
    IF InTable(base, table) THEN table[base].methods ELSE {}
VariablesOrEmpty(base, table) ==
    IF InTable(base, table) THEN table[base].variables ELSE {}

\* collect_inherited_elements(class_name, classes): the pair
\* (inherited_methods, inherited_variables).
CollectInheritedElements(class_name, table) ==
    LET base_classes == GetAllBases(class_name, table)
    IN  [methods   |-> UNION {MethodsOrEmpty(base, table) : base \in base_classes},
         variables |-> UNION {VariablesOrEmpty(base, table) : base \in base_classes}]

\* The stepwise resolver and the function agree on every finished call.
GabStepwiseAgrees ==
    gab_pc = "done" => gab_result = GetAllBases(gab_start, gab_classes)

\* ------------------------------------------------ the analysis, as functions
\* itertools.combinations(focus_classes, r): the tuples of the elements at
\* r increasing positions.  ComboAt(focus, I) is the tuple for positions I.
RECURSIVE ComboAt(_, _)
ComboAt(focus, I) ==
    IF I = {} THEN <<>>
    ELSE LET last == CHOOSE i \in I : \A j \in I : j <= i
         IN  Append(ComboAt(focus, I \ {last}), focus[last])

Combinations(focus, r) ==
    {ComboAt(focus, I) : I \in {J \in SUBSET (1..Len(focus)) : Cardinality(J) = r}}

\* Mutant of AllCombinations: the loop starts at range(3, ...), so pairs are
\* never taken.
AllCombinationsFromThree(focus) == UNION {Combinations(focus, r) : r \in 3..Len(focus)}
\* The two nested loops `for r in range(2, len(focus_classes)+1): for combo in
\* itertools.combinations(focus_classes, r)`.
AllCombinations(focus) == UNION {Combinations(focus, r) : r \in 2..Len(focus)}

\* [c for c in combo if c in table]: the list comprehension's filter.
RECURSIVE Present(_, _)
Present(combo, table) ==
    IF combo = <<>> THEN <<>>
    ELSE LET rest == Present(SubSeq(combo, 1, Len(combo) - 1), table)
             c == combo[Len(combo)]
         IN  IF c \in DOMAIN table THEN Append(rest, c) ELSE rest

\* Mutant of IntersectAll: only the first two sets are intersected.
IntersectFirstTwo(sets) ==
    IF Len(sets) = 0 THEN {}
    ELSE {x \in sets[1] : \A i \in 1..Len(sets) : i <= 2 => x \in sets[i]}
\* set.intersection(*sets) if sets else set().
IntersectAll(sets) ==
    IF Len(sets) = 0 THEN {}
    ELSE {x \in sets[1] : \A i \in 1..Len(sets) : x \in sets[i]}

\* Mutant of Update: an entry d already holds is kept (first wins).
UpdateKeepsFirst(d, other) ==
    [k \in DOMAIN d \cup DOMAIN other |-> IF k \in DOMAIN d THEN d[k] ELSE other[k]]
\* dict.update(other): the keys of `other` replace or extend those of d.
Update(d, other) ==
    [k \in DOMAIN d \cup DOMAIN other |-> IF k \in DOMAIN other THEN other[k] ELSE d[k]]

\* main, lines 190-195: a focus class's own members, with the inherited ones
\* when include_inherited is set.
FocusMembers(class_name, table, inherited) ==
    LET own == table[class_name]
        inh == CollectInheritedElements(class_name, table)
    IN  IF inherited
        THEN [methods |-> own.methods \cup inh.methods,
              variables |-> own.variables \cup inh.variables]
        ELSE [methods |-> own.methods, variables |-> own.variables]

\* main, lines 211-214: the members common to the classes of combo that have
\* an entry in `sets` (focus_methods or focus_variables).
CommonOf(combo, sets) ==
    LET kept == Present(combo, sets)
    IN  IntersectAll([i \in 1..Len(kept) |-> sets[kept[i]]])

\* main, lines 206-218: the map combo -> common members, non-empty ones only.
SharedMap(focus, sets) ==
    LET keys == {combo \in AllCombinations(focus) : CommonOf(combo, sets) # {}}
    IN  [combo \in keys |-> CommonOf(combo, sets)]

\* Mutant of InOtherClasses: the loop stops after the first other class.
InOtherClassesFirstOnly(class_name, focus, guard, sets) ==
    LET others == {i \in 1..Len(focus) : focus[i] # class_name /\ focus[i] \in DOMAIN guard}
    IN  IF others = {} THEN {}
        ELSE sets[focus[CHOOSE i \in others : \A j \in others : i <= j]]
\* Mutant of InOtherClasses: the test `other != class_name` of line 227 lost.
InOtherClassesWithSelf(class_name, focus, guard, sets) ==
    UNION {sets[other] : other \in {o \in Range(focus) : o \in DOMAIN guard}}
\* main, lines 224-229: the members of every other focus class that has an
\* entry in focus_methods (the test of line 227 guards both updates).
InOtherClasses(class_name, focus, guard, sets) ==
    UNION {sets[other] : other \in {o \in Range(focus) : o # class_name /\ o \in DOMAIN guard}}

\* main, line 223: the position of the first focus name for which line 230
\* raises KeyError, 0 when there is none.
FirstKeyError(focus, guard) ==
    LET bad == {i \in 1..Len(focus) : focus[i] \notin DOMAIN guard}
    IN  IF bad = {} THEN 0 ELSE CHOOSE i \in bad : \A j \in bad : i <= j

\* main, lines 221-231: the unique map as far as the loop gets.
UniqueMap(focus, guard, sets) ==
    LET stop == FirstKeyError(focus, guard)
        done == {focus[i] : i \in 1..(IF stop = 0 THEN Len(focus) ELSE stop - 1)}
    IN  [c \in done |-> sets[c] \ InOtherClasses(c, focus, guard, sets)]

\* ------------------------------------------------ the renderers' analysis
\* Lines 266-270 (and 436-440): the member sets of one combo as the renderer
\* builds them.  The comprehension of 266 keeps the table classes only; with
\* include_inherited, 269 indexes that list by the positions of the whole
\* combo, which raises IndexError when a name was filtered out.
VizSets(combo, table, inherited, field) ==
    LET kept == Present(combo, table)
        own(c) == IF field = "methods" THEN table[c].methods ELSE table[c].variables
        inh(c) == IF field = "methods"
                  THEN CollectInheritedElements(c, table).methods
                  ELSE CollectInheritedElements(c, table).variables
    IN  IF ~inherited
        THEN [raised |-> "none", sets |-> [i \in 1..Len(kept) |-> own(kept[i])]]
        ELSE IF Len(kept) < Len(combo)
        THEN [raised |-> "IndexError", sets |-> <<>>]
        ELSE [raised |-> "none",
              sets |-> [i \in 1..Len(combo) |-> own(kept[i]) \cup inh(combo[i])]]

\* Lines 262-276 (and 432-446): the renderer's own shared map.
VizSharedMap(table, focus, inherited, field) ==
    LET combos == AllCombinations(focus)
        common(combo) == IntersectAll(VizSets(combo, table, inherited, field).sets)
        keys == {combo \in combos : common(combo) # {}}
    IN  [combo \in keys |-> common(combo)]

\* Whether building the shared map raises (line 269).
VizSharedRaises(table, focus, inherited) ==
    \E combo \in AllCombinations(focus) :
        VizSets(combo, table, inherited, "methods").raised # "none"

\* Lines 297-303: a table class's members as the renderer's unique loop
\* takes them.
VizMembers(c, table, inherited, field) ==
    LET own == IF field = "methods" THEN table[c].methods ELSE table[c].variables
        inh == IF field = "methods"
               THEN CollectInheritedElements(c, table).methods
               ELSE CollectInheritedElements(c, table).variables
    IN  IF inherited THEN own \cup inh ELSE own

\* Lines 286-296: the members of the other focus names that are table classes.
VizInOtherClasses(class_name, table, focus, inherited, field) ==
    UNION {VizMembers(other, table, inherited, field) :
              other \in {o \in Range(focus) \ {class_name} : InTable(o, table)}}

\* Lines 279-303 (and 449-473): the renderer's own unique map; a focus name
\* outside the table gets the empty set.
VizUniqueMap(table, focus, inherited, field) ==
    [c \in Range(focus) |->
        IF ~InTable(c, table) THEN {}
        ELSE VizMembers(c, table, inherited, field)
                 \ VizInOtherClasses(c, table, focus, inherited, field)]

\* The analysis both renderers start with, up to the first exception.  The
\* original renderer goes on to lines 499-504, which index the table by every
\* focus name and raise KeyError for one outside it.
VizAnalysis(renderer, table, focus, inherited) ==
    LET exc == IF VizSharedRaises(table, focus, inherited) THEN "IndexError"
                  ELSE IF renderer = "original"
                          /\ \E c \in Range(focus) : ~InTable(c, table)
                  THEN "KeyError"
                  ELSE "none"
    IN  IF exc = "IndexError"
        THEN [renderer |-> renderer, raised |-> exc,
              all_focus_methods |-> <<>>, all_focus_variables |-> <<>>,
              unique_methods |-> <<>>, unique_variables |-> <<>>]
        ELSE [renderer |-> renderer, raised |-> exc,
              all_focus_methods |-> VizSharedMap(table, focus, inherited, "methods"),
              all_focus_variables |-> VizSharedMap(table, focus, inherited, "variables"),
              unique_methods |-> VizUniqueMap(table, focus, inherited, "methods"),
              unique_variables |-> VizUniqueMap(table, focus, inherited, "variables")]

\* ------------------------------------------------------- inputs of main()
\* Longest focus list (--focus takes any number of names, repeats included).
MaxFocus == 3
\* Most member names a table of the flat family declares in all.
MaxMembers == 3
\* Most base references in a table of the inheritance family.
MaxInheritEdges == 2
\* Longest list of input files in the batch family.
MaxFiles == 2

Methods == {"m1", "m2"}
Variables == {"v1"}

\* What reading and parsing one input file yields (lines 146-163): the table
\* HierarchyExtractor built, or the error that skipped the file.
OkFile(table) == [status |-> "ok", classes |-> table]
NotFoundFile == [status |-> "FileNotFoundError", classes |-> <<>>]
UnreadableFile == [status |-> "Exception", classes |-> <<>>]
SyntaxErrorFile == [status |-> "SyntaxError", classes |-> <<>>]

\* The member sets of the classes `names`, holding at most `budget` names
\* together: functions from names to [methods, variables].
RECURSIVE MemberChoices(_, _)
MemberChoices(names, budget) ==
    IF names = {} THEN {<<>>}
    ELSE LET c == CHOOSE x \in names : TRUE
             facts == {f \in [methods : SUBSET Methods, variables : SUBSET Variables] :
                          Cardinality(f.methods) + Cardinality(f.variables) <= budget}
         IN  UNION {{(c :> f) @@ rest :
                        rest \in MemberChoices(names \ {c},
                            budget - Cardinality(f.methods) - Cardinality(f.variables))} :
                       f \in facts}

\* Tables without inheritance: every choice of methods and variables for the
\* three classes within the bound.
FlatTables ==
    {[c \in ClassNames |-> [bases |-> <<>>, methods |-> f[c].methods,
                            variables |-> f[c].variables]] :
        f \in MemberChoices(ClassNames, MaxMembers)}

\* Members that tell the three classes apart when they are inherited.
OwnMembers ==
    [A |-> [methods |-> {"m1"}, variables |-> {}],
     B |-> [methods |-> {"m2"}, variables |-> {}],
     C |-> [methods |-> {}, variables |-> {"v1"}]]

\* A table that declares the bases b and, per class, the members OwnMembers.
WithOwnMembers(b) ==
    [c \in DOMAIN b |-> [bases |-> b[c], methods |-> OwnMembers[c].methods,
                         variables |-> OwnMembers[c].variables]]

\* Tables with inheritance: every choice of bases lists over the class names
\* and the absent name, within the bounds.
InheritTables ==
    {WithOwnMembers(b) :
        b \in BasesChoices(ClassNames, ClassNames \cup {Absent}, MaxInheritEdges)}

\* Tables in which a base expression was no name (get_name returned None).
NoneBaseTables ==
    {WithOwnMembers(b) : b \in BasesChoices(ClassNames, {None}, MaxInheritEdges)}

\* What the extractor yields for examples/sample_input.py: the variables are
\* assigned in __init__, a method the extractor skips (line 23).
SampleTable ==
    [ClassA |-> [bases |-> <<>>, variables |-> {},
                 methods |-> {"method_shared_all", "method_shared_ab", "method_unique_a"}],
     ClassB |-> [bases |-> <<>>, variables |-> {},
                 methods |-> {"method_shared_all", "method_shared_ab", "method_unique_b"}],
     ClassC |-> [bases |-> <<>>, variables |-> {},
                 methods |-> {"method_shared_all", "method_unique_c"}]]

\* What the extractor yields for examples/derived.py; Base is imported, not
\* declared.
DerivedTable ==
    [Derived |-> [bases |-> <<"Base">>, variables |-> {},
                  methods |-> {"derived_method", "shared_method"}]]

\* A file that declares Base for Derived to inherit from.
BaseTable ==
    [Base |-> [bases |-> <<>>, variables |-> {"v1"}, methods |-> {"m1", "shared_method"}]]

\* ------------------------------------------------- extraction from a tree
\* The base expressions of a class declaration, as ast nodes: get_name tells
\* ast.Name and ast.Attribute from every other kind of node.
Name(id) == [kind |-> "Name", id |-> id]
Attribute(value, attr) == [kind |-> "Attribute", value |-> value, attr |-> attr]
Call == [kind |-> "Call"]
Subscript == [kind |-> "Subscript"]

\* HierarchyExtractor.get_name (lines 66-72): the identifier of a Name, the
\* dotted name of an Attribute, None for any other node.  Line 70 adds
\* strings: when the inner call returned None, `None + '.'` raises TypeError.
RECURSIVE GetName(_)
GetName(node) ==
    IF node.kind = "Name" THEN [raised |-> "none", name |-> node.id]
    ELSE IF node.kind = "Attribute"
    THEN LET inner == GetName(node.value)
         IN  IF inner.raised # "none" THEN inner
             ELSE IF inner.name = None THEN [raised |-> "TypeError", name |-> None]
             ELSE [raised |-> "none", name |-> inner.name \o "." \o node.attr]
    ELSE [raised |-> "none", name |-> None]

\* A class declaration: its name, its base expressions, and the method and
\* variable names its body yields (lines 18-43).
ClassDef(name, bases, methods, variables) ==
    [name |-> name, bases |-> bases, methods |-> methods, variables |-> variables]

\* Line 16: [self.get_name(base) for base in node.bases]; the comprehension
\* keeps every value get_name returns, None included.
BasesOf(node) ==
    LET got == [i \in 1..Len(node.bases) |-> GetName(node.bases[i])]
    IN  IF \E i \in 1..Len(got) : got[i].raised # "none"
        THEN [raised |-> "TypeError", bases |-> <<>>]
        ELSE [raised |-> "none", bases |-> [i \in 1..Len(got) |-> got[i].name]]

\* HierarchyExtractor.visit over the class declarations of one tree, in the
\* order visit_ClassDef meets them (a nested class after the one around it):
\* line 44 stores each under its name, replacing an earlier one; an exception
\* of get_name ends the walk.
RECURSIVE Visit(_, _)
Visit(decls, table) ==
    IF decls = <<>> THEN [raised |-> "none", classes |-> table]
    ELSE LET node == Head(decls)
             b == BasesOf(node)
             class_info == [bases |-> b.bases, methods |-> node.methods,
                            variables |-> node.variables]
         IN  IF b.raised # "none" THEN [raised |-> b.raised, classes |-> table]
             ELSE Visit(Tail(decls), Update(table, (node.name :> class_info)))

\* An input file that was read and parsed, given as the class declarations of
\* its tree.
ParsedFile(decls) == [status |-> "parsed", decls |-> decls]

\* Base expressions: names, dotted names, and expressions that are no names.
BaseExprs ==
    {Name("A"), Attribute(Name("pkg"), "A"),
     Attribute(Attribute(Name("pkg"), "sub"), "A"),
     Call, Subscript, Attribute(Call, "a"), Attribute(Attribute(Subscript, "a"), "b")}

\* Files that declare A and then D with any list of base expressions.
ExprFiles ==
    {ParsedFile(<<ClassDef("A", <<>>, {"m1"}, {}), ClassDef("D", bases, {"m2"}, {"v1"})>>) :
        bases \in SeqsUpTo(BaseExprs, MaxBases)}

\* Batches that mix files: a class declared twice in one file and again in a
\* later one, failing files between and before parsed ones, and a file whose
\* extraction raises.
MixedBatches ==
    {<<ParsedFile(<<ClassDef("A", <<Name("B")>>, {"m1"}, {"v1"}),
                    ClassDef("B", <<>>, {"m2"}, {}),
                    ClassDef("A", <<>>, {"m1", "m2"}, {})>>),
       SyntaxErrorFile,
       ParsedFile(<<ClassDef("A", <<Name("C")>>, {"m2"}, {}),
                    ClassDef("C", <<>>, {}, {"v1"})>>)>>,
     <<NotFoundFile, UnreadableFile,
       ParsedFile(<<ClassDef("A", <<>>, {"m1"}, {"v1"})>>)>>,
     <<ParsedFile(<<ClassDef("A", <<>>, {"m1"}, {})>>),
       ParsedFile(<<ClassDef("B", <<>>, {"m2"}, {}),
                    ClassDef("D", <<Attribute(Call, "a")>>, {}, {})>>),
       ParsedFile(<<ClassDef("C", <<>>, {}, {"v1"})>>)>>}

FocusLists == SeqsUpTo(ClassNames \cup {Absent}, MaxFocus)

\* The files of the batch family: failing ones, one without classes, and two
\* that declare the same class differently.
BatchFiles ==
    {NotFoundFile, UnreadableFile, SyntaxErrorFile, OkFile(<<>>),
     OkFile([A |-> [bases |-> <<"B">>, methods |-> {"m1"}, variables |-> {"v1"}],
             B |-> [bases |-> <<>>, methods |-> {"m2"}, variables |-> {}]]),
     OkFile([A |-> [bases |-> <<>>, methods |-> {"m2"}, variables |-> {}],
             C |-> [bases |-> <<"A">>, methods |-> {"m1"}, variables |-> {"v1"}]])}

\* The command lines main() is run on.
Inputs ==
    [files : {<<OkFile(t)>> : t \in FlatTables \cup InheritTables},
     focus : FocusLists, inherited : BOOLEAN]
    \cup
    [files : {<<OkFile(t)>> : t \in NoneBaseTables},
     focus : SeqsUpTo({"A", Absent}, 1), inherited : BOOLEAN]
    \cup
    [files : SeqsUpTo(BatchFiles, MaxFiles) \ {<<>>},
     focus : SeqsUpTo({"A", "C", Absent}, 2), inherited : BOOLEAN]
    \cup
    [files : {<<OkFile(SampleTable)>>},
     focus : SeqsUpTo({"ClassA", "ClassB", "ClassC"}, 3), inherited : BOOLEAN]
    \cup
    [files : {<<OkFile(DerivedTable)>>, <<OkFile(BaseTable), OkFile(DerivedTable)>>},
     focus : SeqsUpTo({"Derived", "Base"}, 2), inherited : BOOLEAN]
    \cup
    [files : {<<f>> : f \in ExprFiles} \cup MixedBatches,
     focus : SeqsUpTo({"A", "D"}, 2), inherited : BOOLEAN]

\* ------------------------------------------------------------------ main()
Init ==
    /\ GabIdle
    /\ pc = "extract"
    /\ \E in \in Inputs : MainStart(in.files, in.focus, in.inherited)

\* Lines 145-164, one input file: a file that cannot be read or parsed is
\* reported and skipped, any other file's classes update the table.  The
\* extractor runs outside the try blocks: what it raises ends main().
Extract ==
    /\ pc = "extract"
    /\ file_index <= Len(input_files)
    /\ LET file == input_files[file_index]
           tree == IF file.status = "parsed" THEN Visit(file.decls, <<>>)
                   ELSE [raised |-> "none", classes |-> file.classes]
       IN  IF file.status \in {"ok", "parsed"}
           THEN IF tree.raised = "none"
                THEN /\ classes' = Update(classes, tree.classes)
                     /\ file_index' = file_index + 1
                     /\ UNCHANGED <<printed, pc, raised>>
                ELSE /\ raised' = tree.raised
                     /\ pc' = "done"
                     /\ UNCHANGED <<classes, file_index, printed>>
           ELSE /\ printed' = Append(printed, <<"error", file.status, file_index>>)
                /\ file_index' = file_index + 1
                /\ UNCHANGED <<classes, pc, raised>>
    /\ UNCHANGED <<input_files, focus_classes, include_inherited,
                   report_written, focus_methods, focus_variables,
                   all_focus_methods, all_focus_variables, unique_methods,
                   unique_variables, viz, rendered, gabVars>>

\* Mutant of NoClasses: the `return` of line 168 lost; the run goes on to
\* write output.txt and to the focus phase.
NoClassesNoReturn ==
    /\ pc = "extract"
    /\ file_index > Len(input_files)
    /\ DOMAIN classes = {}
    /\ printed' = Append(printed, <<"no classes">>)
    /\ report_written' = TRUE
    /\ pc' = "focus"
    /\ UNCHANGED <<input_files, focus_classes, include_inherited, file_index,
                   classes, focus_methods, focus_variables,
                   all_focus_methods, all_focus_variables, unique_methods,
                   unique_variables, viz, rendered, raised, gabVars>>
\* Lines 166-168: no class in any file; report it and return.
NoClasses ==
    /\ pc = "extract"
    /\ file_index > Len(input_files)
    /\ DOMAIN classes = {}
    /\ printed' = Append(printed, <<"no classes">>)
    /\ pc' = "done"
    /\ UNCHANGED <<input_files, focus_classes, include_inherited, file_index,
                   classes, report_written, focus_methods, focus_variables,
                   all_focus_methods, all_focus_variables, unique_methods,
                   unique_variables, viz, rendered, raised, gabVars>>

\* Line 175: ', '.join(class_info['bases']) raises TypeError when the list
\* holds None.
JoinRaises(table) == \E c \in DOMAIN table : None \in Range(table[c].bases)

\* Lines 170-182: write output.txt.
Report ==
    /\ pc = "extract"
    /\ file_index > Len(input_files)
    /\ DOMAIN classes # {}
    /\ IF JoinRaises(classes)
       THEN raised' = "TypeError" /\ pc' = "done" /\ UNCHANGED report_written
       ELSE report_written' = TRUE /\ pc' = "focus" /\ UNCHANGED raised
    /\ UNCHANGED <<input_files, focus_classes, include_inherited, file_index,
                   classes, printed, focus_methods, focus_variables,
                   all_focus_methods, all_focus_variables, unique_methods,
                   unique_variables, viz, rendered, gabVars>>

\* The focus names of the table, in list order, and the others.
ValidFocus == {c \in Range(focus_classes) : InTable(c, classes)}
RECURSIVE Warnings(_)
Warnings(focus) ==
    IF focus = <<>> THEN <<>>
    ELSE LET rest == Warnings(SubSeq(focus, 1, Len(focus) - 1))
             c == focus[Len(focus)]
         IN  IF InTable(c, classes) THEN rest ELSE Append(rest, <<"warning", c>>)

\* Mutant of PrepareFocus: line 194-195 written as methods.update(...) and
\* variables.update(...), which changes the table's own sets in place.
PrepareFocusInPlace ==
    /\ pc = "focus"
    /\ focus_methods' = [c \in ValidFocus |->
                            FocusMembers(c, classes, include_inherited).methods]
    /\ focus_variables' = [c \in ValidFocus |->
                            FocusMembers(c, classes, include_inherited).variables]
    /\ classes' = [c \in DOMAIN classes |->
                      IF c \in ValidFocus
                      THEN [classes[c] EXCEPT
                              !.methods = FocusMembers(c, classes, include_inherited).methods,
                              !.variables = FocusMembers(c, classes, include_inherited).variables]
                      ELSE classes[c]]
    /\ IF focus_classes = <<>>
       THEN pc' = "enhanced" /\ UNCHANGED printed
       ELSE IF ValidFocus = {}
       THEN /\ pc' = "done"
            /\ printed' = printed \o Warnings(focus_classes) \o <<<<"no valid focus">>>>
       ELSE /\ pc' = "shared"
            /\ printed' = printed \o Warnings(focus_classes)
    /\ UNCHANGED <<input_files, focus_classes, include_inherited, file_index,
                   report_written, all_focus_methods,
                   all_focus_variables, unique_methods, unique_variables, viz,
                   rendered, raised, gabVars>>
\* Lines 185-203: the members of every focus class of the table, a warning
\* for every other focus name; return when no focus name is in the table.
\* Without focus names the whole block (to line 231) is skipped.
PrepareFocus ==
    /\ pc = "focus"
    /\ focus_methods' = [c \in ValidFocus |->
                            FocusMembers(c, classes, include_inherited).methods]
    /\ focus_variables' = [c \in ValidFocus |->
                            FocusMembers(c, classes, include_inherited).variables]
    /\ IF focus_classes = <<>>
       THEN pc' = "enhanced" /\ UNCHANGED printed
       ELSE IF ValidFocus = {}
       THEN /\ pc' = "done"
            /\ printed' = printed \o Warnings(focus_classes) \o <<<<"no valid focus">>>>
       ELSE /\ pc' = "shared"
            /\ printed' = printed \o Warnings(focus_classes)
    /\ UNCHANGED <<input_files, focus_classes, include_inherited, file_index,
                   classes, report_written, all_focus_methods,
                   all_focus_variables, unique_methods, unique_variables, viz,
                   rendered, raised, gabVars>>

\* Lines 205-218: the shared maps over all combinations of focus names.
Shared ==
    /\ pc = "shared"
    /\ all_focus_methods' = SharedMap(focus_classes, focus_methods)
    /\ all_focus_variables' = SharedMap(focus_classes, focus_variables)
    /\ pc' = "unique"
    /\ UNCHANGED <<input_files, focus_classes, include_inherited, file_index,
                   classes, printed, report_written, focus_methods,
                   focus_variables, unique_methods, unique_variables, viz,
                   rendered, raised, gabVars>>

\* Lines 220-231: the unique maps; focus_methods[class_name] of line 230
\* raises KeyError for a focus name that has no entry.
Unique ==
    /\ pc = "unique"
    /\ unique_methods' = UniqueMap(focus_classes, focus_methods, focus_methods)
    /\ unique_variables' = UniqueMap(focus_classes, focus_methods, focus_variables)
    /\ IF FirstKeyError(focus_classes, focus_methods) = 0
       THEN pc' = "enhanced" /\ UNCHANGED raised
       ELSE pc' = "done" /\ raised' = "KeyError"
    /\ UNCHANGED <<input_files, focus_classes, include_inherited, file_index,
                   classes, printed, report_written, focus_methods,
                   focus_variables, all_focus_methods, all_focus_variables, viz,
                   rendered, gabVars>>

\* One renderer call, or the message printed instead when there is no focus
\* name (lines 234-237 and 240-243).
Render(renderer, next) ==
    IF focus_classes = <<>>
    THEN /\ printed' = Append(printed, <<"no focus classes">>)
         /\ pc' = next
         /\ UNCHANGED <<viz, rendered, raised>>
    ELSE /\ viz' = VizAnalysis(renderer, classes, focus_classes, include_inherited)
         /\ IF viz'.raised = "none"
            THEN /\ rendered' = Append(rendered, renderer)
                 /\ printed' = Append(printed, <<"saved", renderer>>)
                 /\ pc' = next
                 /\ UNCHANGED raised
            ELSE /\ raised' = viz'.raised
                 /\ pc' = "done"
                 /\ UNCHANGED <<rendered, printed>>

\* Lines 233-237: generate_enhanced_visualization(classes, focus_classes, ...).
Enhanced ==
    /\ pc = "enhanced"
    /\ Render("enhanced", "original")
    /\ UNCHANGED <<input_files, focus_classes, include_inherited, file_index,
                   classes, report_written, focus_methods, focus_variables,
                   all_focus_methods, all_focus_variables, unique_methods,
                   unique_variables, gabVars>>

\* Lines 239-243: generate_original_visualization(classes, focus_classes, ...).
Original ==
    /\ pc = "original"
    /\ Render("original", "done")
    /\ UNCHANGED <<input_files, focus_classes, include_inherited, file_index,
                   classes, report_written, focus_methods, focus_variables,
                   all_focus_methods, all_focus_variables, unique_methods,
                   unique_variables, gabVars>>

Next ==
    \/ Extract
    \/ NoClasses
    \/ Report
    \/ PrepareFocus
    \/ Shared
    \/ Unique
    \/ Enhanced
    \/ Original

\* One run of main() on any command line of Inputs.
Spec == Init /\ [][Next]_vars

\* ----------------------------------------------------- resolver properties
\* The classes whose bases lists the finished call has read: the starting
\* class and every returned name, where they are keys of the table.
GabReadClasses == ({gab_start} \cup gab_result) \cap DOMAIN gab_classes

\* C1: on every table (cyclic, self-looping, diamond, with absent bases) and
\* for every class name, the call get_all_bases(C, table) terminates; the
\* set it returns is a finite set of names.
GabTerminates == <>(gab_pc = "done" /\ IsFiniteSet(gab_result))

\* C1 witness: a call that ended on a table where the starting class reaches
\* itself through a cycle and an absent base is named.
GabCyclicCallEnded ==
    /\ gab_pc = "done"
    /\ gab_start \in gab_result
    /\ Absent \in gab_result
    /\ Cardinality(gab_result) >= 3

\* C2 (as claimed): the set get_all_bases(C, table) returns never contains C
\* itself, also when C's base chain is cyclic.
GabExcludesSelf == gab_pc = "done" => gab_start \notin gab_result

\* C7 (as claimed): every name in the set get_all_bases returns is a key of
\* the table.
GabResultInTable == gab_pc = "done" => gab_result \subseteq DOMAIN gab_classes

\* C7 (amended): a base that is no key of the table is not expanded but is
\* added to the returned set: every returned name is a non-empty (not None)
\* entry of the bases list of the starting class or of a returned table
\* class, every such entry is returned, and a name outside the table was
\* never expanded.
GabResultIsListedBases ==
    gab_pc = "done" =>
        /\ \A n \in gab_result :
              /\ n \notin {None, ""}
              /\ \E c \in GabReadClasses : n \in Range(gab_classes[c].bases)
        /\ \A c \in GabReadClasses :
              \A n \in Range(gab_classes[c].bases) \ {None, ""} : n \in gab_result
        /\ \A n \in GabNames \ DOMAIN gab_classes : gab_expanded[n] = 0

\* C7 witness: a finished call that returned an absent base next to a table
\* class, on a table that also lists a None base.
GabReturnedAbsentBase ==
    /\ gab_pc = "done"
    /\ Absent \in gab_result
    /\ gab_result \cap DOMAIN gab_classes # {}
    /\ \E c \in GabReadClasses : None \in Range(gab_classes[c].bases)


\* --------------------------------------------------- analysis properties
\* What the spec calls the ancestors of a class: the least set that holds the
\* non-empty bases of c and of every table class in it.
RECURSIVE AncestorClosure(_, _)
AncestorClosure(S, table) ==
    LET more == S \cup UNION {Range(table[c].bases) \ {None, ""} : c \in S \cap DOMAIN table}
    IN  IF more = S THEN S ELSE AncestorClosure(more, table)
Ancestors(c, table) ==
    IF c \in DOMAIN table
    THEN AncestorClosure(Range(table[c].bases) \ {None, ""}, table)
    ELSE {}

\* The spec's effective member sets of a focus name under the run's
\* include-inherited setting; a name outside the table has no members.
EffectiveMethods(c) ==
    IF c \notin DOMAIN classes THEN {}
    ELSE IF ~include_inherited THEN classes[c].methods
    ELSE classes[c].methods
            \cup UNION {classes[a].methods : a \in Ancestors(c, classes) \cap DOMAIN classes}
EffectiveVariables(c) ==
    IF c \notin DOMAIN classes THEN {}
    ELSE IF ~include_inherited THEN classes[c].variables
    ELSE classes[c].variables
            \cup UNION {classes[a].variables : a \in Ancestors(c, classes) \cap DOMAIN classes}

\* The phases the run has left behind.
AfterFocus == report_written /\ pc # "focus"
AfterShared == AfterFocus /\ pc # "shared"
AfterUnique == AfterShared /\ pc # "unique"
Warned == \E c \in Range(focus_classes) : <<"warning", c>> \in Range(printed)

\* C3 (as claimed): with a focus name outside the table next to one inside
\* it, the run warns, never raises afterwards and ends with both renderers
\* called.
ScenarioCCompletes ==
    (Warned /\ ValidFocus # {}) =>
        /\ raised = "none"
        /\ pc = "done" => rendered = <<"enhanced", "original">>

\* C4 (as claimed): a focus name outside the table is in no combination key
\* of the shared maps, has no unique entry, and is not in the focus list a
\* renderer receives.
UnknownFocusExcluded ==
    /\ \A combo \in DOMAIN all_focus_methods \cup DOMAIN all_focus_variables :
          Range(combo) \subseteq DOMAIN classes
    /\ DOMAIN unique_methods \cup DOMAIN unique_variables \subseteq DOMAIN classes
    /\ viz.renderer # "none" => Range(focus_classes) \subseteq DOMAIN classes

\* C5 (as claimed): every member stored in a shared map under a combination
\* is in the effective set of every class the combination names.
SharedWithinEffective ==
    /\ \A combo \in DOMAIN all_focus_methods : \A c \in Range(combo) :
          all_focus_methods[combo] \subseteq EffectiveMethods(c)
    /\ \A combo \in DOMAIN all_focus_variables : \A c \in Range(combo) :
          all_focus_variables[combo] \subseteq EffectiveVariables(c)
    /\ \A combo \in DOMAIN viz.all_focus_methods : \A c \in Range(combo) :
          viz.all_focus_methods[combo] \subseteq EffectiveMethods(c)
    /\ \A combo \in DOMAIN viz.all_focus_variables : \A c \in Range(combo) :
          viz.all_focus_variables[combo] \subseteq EffectiveVariables(c)

\* C6: the unique sets of a focus class, in main and in the renderers, share
\* no member with the effective sets of any other focus class.
UniqueDisjointFromOthers ==
    \A c2 \in Range(focus_classes) :
        /\ \A c \in DOMAIN unique_methods \ {c2} :
              unique_methods[c] \cap EffectiveMethods(c2) = {}
        /\ \A c \in DOMAIN unique_variables \ {c2} :
              unique_variables[c] \cap EffectiveVariables(c2) = {}
        /\ \A c \in DOMAIN viz.unique_methods \ {c2} :
              viz.unique_methods[c] \cap EffectiveMethods(c2) = {}
        /\ \A c \in DOMAIN viz.unique_variables \ {c2} :
              viz.unique_variables[c] \cap EffectiveVariables(c2) = {}

\* C6 witness: three focus classes, one of which keeps some but not all of
\* its methods as unique, in main and in the renderer called last.
UniqueNarrowedByOthers ==
    /\ pc = "done"
    /\ Len(focus_classes) = 3
    /\ \E c \in DOMAIN unique_methods :
          /\ unique_methods[c] # {}
          /\ unique_methods[c] # focus_methods[c]
          /\ c \in DOMAIN viz.unique_methods
          /\ viz.unique_methods[c] = unique_methods[c]

\* C8: once the focus data is prepared, every focus class of the table has
\* its own declared sets as effective sets when include-inherited is off, and
\* its own sets plus those of every table class reachable through bases when
\* it is on.
FocusMembersAreEffective ==
    AfterFocus =>
        /\ DOMAIN focus_methods = ValidFocus
        /\ DOMAIN focus_variables = ValidFocus
        /\ \A c \in ValidFocus :
              /\ focus_methods[c] = EffectiveMethods(c)
              /\ focus_variables[c] = EffectiveVariables(c)
              /\ ~include_inherited =>
                    /\ focus_methods[c] = classes[c].methods
                    /\ focus_variables[c] = classes[c].variables

\* C8 witness (Scenario B): Derived, with Base in the table, has Base's
\* members next to its own with inheritance on.
DerivedInheritsFromBase ==
    /\ pc = "done"
    /\ include_inherited
    /\ "Derived" \in DOMAIN focus_methods
    /\ focus_methods["Derived"] = {"derived_method", "shared_method", "m1"}
    /\ focus_variables["Derived"] = {"v1"}

\* The combinations of focus names at strictly increasing positions.
PositionTuples(n) ==
    UNION {{p \in [1..r -> 1..n] : \A k \in 1..(r - 1) : p[k] < p[k + 1]} : r \in 2..n}
NamesAt(p) == [k \in DOMAIN p |-> focus_classes[p[k]]]
IsClassCombo(combo) ==
    /\ Range(combo) \subseteq DOMAIN classes
    /\ \A i, j \in DOMAIN combo : i # j => combo[i] # combo[j]
CommonMethods(combo) ==
    {m \in EffectiveMethods(combo[1]) : \A c \in Range(combo) : m \in EffectiveMethods(c)}
CommonVariables(combo) ==
    {v \in EffectiveVariables(combo[1]) : \A c \in Range(combo) : v \in EffectiveVariables(c)}

\* C9: once the shared maps are computed, for every combination of two or
\* more distinct focus classes in list order the map holds an entry exactly
\* when the classes' effective sets have a common member, and the entry is
\* that intersection; methods and variables separately.
SharedIsIntersection ==
    (AfterShared /\ ValidFocus # {}) =>
        \A p \in PositionTuples(Len(focus_classes)) :
            LET combo == NamesAt(p)
            IN  IsClassCombo(combo) =>
                  /\ combo \in DOMAIN all_focus_methods <=> CommonMethods(combo) # {}
                  /\ combo \in DOMAIN all_focus_methods =>
                        all_focus_methods[combo] = CommonMethods(combo)
                  /\ combo \in DOMAIN all_focus_variables <=> CommonVariables(combo) # {}
                  /\ combo \in DOMAIN all_focus_variables =>
                        all_focus_variables[combo] = CommonVariables(combo)

\* C9 witness (Scenario A): on examples/sample_input.py with focus ClassA,
\* ClassB, ClassC the map holds the expected entries.
ScenarioAShared ==
    /\ pc = "done"
    /\ focus_classes = <<"ClassA", "ClassB", "ClassC">>
    /\ <<"ClassA", "ClassB", "ClassC">> \in DOMAIN all_focus_methods
    /\ all_focus_methods[<<"ClassA", "ClassB", "ClassC">>] = {"method_shared_all"}
    /\ <<"ClassA", "ClassB">> \in DOMAIN all_focus_methods
    /\ all_focus_methods[<<"ClassA", "ClassB">>] = {"method_shared_all", "method_shared_ab"}
    /\ unique_methods["ClassA"] = {"method_unique_a"}

\* C10: with fewer than two focus names the shared maps stay empty, and a
\* single focus class of the table gets unique entries equal to its full
\* effective sets.
SingleFocusKeepsAll ==
    Len(focus_classes) < 2 =>
        /\ DOMAIN all_focus_methods = {}
        /\ DOMAIN all_focus_variables = {}
        /\ (AfterUnique /\ ValidFocus # {}) =>
              LET c == focus_classes[1]
              IN  /\ DOMAIN unique_methods = {c}
                  /\ DOMAIN unique_variables = {c}
                  /\ unique_methods[c] = EffectiveMethods(c)
                  /\ unique_variables[c] = EffectiveVariables(c)

\* C10 witness: a run with one focus class that inherits, ended with its
\* unique entries holding inherited members.
SingleFocusUniqueHeld ==
    /\ pc = "done"
    /\ Len(focus_classes) = 1
    /\ include_inherited
    /\ rendered = <<"enhanced", "original">>
    /\ \E c \in DOMAIN unique_methods :
          /\ unique_methods[c] # classes[c].methods
          /\ unique_variables[c] # {}

\* ------------------------------------------------------- run properties
\* Every input file has been taken and none of them gave a class.
EmptyResult ==
    /\ pc # "idle"
    /\ file_index > Len(input_files)
    /\ DOMAIN classes = {}

\* The messages of the phases after the empty check.
LaterMessages ==
    {<<"no valid focus">>, <<"no focus classes">>}
        \cup {<<"warning", c>> : c \in Range(focus_classes)}
        \cup {<<"saved", r>> : r \in {"enhanced", "original"}}

\* C11: when no class is found across all input files, the run reports it
\* and stops: the only step it takes is the report, after which it takes none;
\* no report file is written, no focus validation, shared or unique analysis
\* is made, no renderer is called, and nothing is raised.
NoClassesStops ==
    /\ [](EmptyResult =>
            /\ pc \in {"extract", "done"}
            /\ pc = "done" <=> <<"no classes">> \in Range(printed)
            /\ ~report_written
            /\ Range(printed) \cap LaterMessages = {}
            /\ focus_methods = <<>> /\ focus_variables = <<>>
            /\ all_focus_methods = <<>> /\ all_focus_variables = <<>>
            /\ unique_methods = <<>> /\ unique_variables = <<>>
            /\ viz = NoViz /\ rendered = <<>>
            /\ raised = "none")
    /\ [][EmptyResult =>
            /\ pc = "extract" /\ pc' = "done"
            /\ printed' = Append(printed, <<"no classes">>)
            /\ UNCHANGED <<classes, report_written, focus_methods, focus_variables,
                           all_focus_methods, all_focus_variables, unique_methods,
                           unique_variables, viz, rendered, raised>>]_vars

\* C11 witness (Scenario D): a run with focus names whose files declare no
\* class, one of them read and parsed, ended right after the report.
NoClassesReported ==
    /\ pc = "done"
    /\ EmptyResult
    /\ focus_classes # <<>>
    /\ OkFile(<<>>) \in Range(input_files)
    /\ <<"no classes">> \in Range(printed)

\* A file that could be read and parsed.
Readable(file) == file.status \in {"ok", "parsed"}

\* A parsed file with a base expression for which get_name raises.
ExtractionRaises(file) ==
    /\ file.status = "parsed"
    /\ \E i \in 1..Len(file.decls) : \E k \in 1..Len(file.decls[i].bases) :
          GetName(file.decls[i].bases[k]).raised # "none"

\* The table extracted from a readable file: per declared name, the facts of
\* the last declaration of that name.
TableOf(file) ==
    IF file.status = "ok" THEN file.classes
    ELSE LET decls == file.decls
             last(c) == CHOOSE i \in 1..Len(decls) :
                           /\ decls[i].name = c
                           /\ \A j \in 1..Len(decls) : decls[j].name = c => j <= i
         IN  [c \in {decls[i].name : i \in 1..Len(decls)} |->
                 [bases |-> [k \in 1..Len(decls[last(c)].bases) |->
                                GetName(decls[last(c)].bases[k]).name],
                  methods |-> decls[last(c)].methods,
                  variables |-> decls[last(c)].variables]]

\* The merge of the tables of the readable files among the first k: per
\* class name, the entry of the last such file that declares it.
MergedTable(k) ==
    LET good == {i \in 1..k : Readable(input_files[i])}
        declaring(c) == {i \in good : c \in DOMAIN TableOf(input_files[i])}
        latest(c) == CHOOSE i \in declaring(c) : \A j \in declaring(c) : j <= i
    IN  [c \in UNION {DOMAIN TableOf(input_files[i]) : i \in good} |->
            TableOf(input_files[latest(c)])[c]]

\* C12: the class table equals the merge, in command-line order, of the
\* tables of the files taken so far that could be read and parsed, a later
\* file's entry replacing an earlier one of the same name; a file that cannot
\* be read or parsed leaves the table as it is and the run goes on to the
\* next file; the later phases start only when every file has been taken.
TableIsMerge ==
    /\ [](pc # "idle" =>
            /\ classes = MergedTable(file_index - 1)
            /\ pc # "extract" =>
                  \/ file_index = Len(input_files) + 1
                  \/ raised = "TypeError" /\ ExtractionRaises(input_files[file_index]))
    /\ [][(pc = "extract" /\ file_index <= Len(input_files)
              /\ ~Readable(input_files[file_index])) =>
                /\ classes' = classes
                /\ file_index' = file_index + 1
                /\ pc' = "extract"
                /\ raised' = "none"]_vars

\* C12 witness: a finished run over three files, the second unparseable, in
\* which the third file's declaration of a class replaced the first file's
\* and another class of the first file was kept.
LaterFileReplaced ==
    /\ pc = "done"
    /\ raised = "none"
    /\ Len(input_files) = 3
    /\ input_files[2] = SyntaxErrorFile
    /\ <<"error", "SyntaxError", 2>> \in Range(printed)
    /\ classes["A"] = TableOf(input_files[3])["A"]
    /\ classes["A"] # TableOf(input_files[1])["A"]
    /\ classes["B"] = TableOf(input_files[1])["B"]

\* The extraction loop of lines 145-164 is over.
ExtractionOver ==
    /\ pc # "idle"
    /\ file_index > Len(input_files)

\* C13: once the extraction phase is over the class table is never changed:
\* every later step (the report, the focus data with ancestor resolution and
\* inherited members, the shared and unique analysis, both renderers) leaves
\* every class's bases, methods and variables as they are, and the table
\* stays the merge of the input files, for any focus list and either
\* include-inherited setting.
TableNeverMutated ==
    /\ [][ExtractionOver => /\ classes' = classes
                            /\ ExtractionOver']_vars
    /\ [](ExtractionOver => classes = MergedTable(Len(input_files)))

\* C13 witness: a run with inheritance on, over two or more focus classes,
\* one of which got inherited members, ended after both renderers with the
\* table still the merge of its files.
TableKeptThroughRun ==
    /\ pc = "done"
    /\ include_inherited
    /\ rendered = <<"enhanced", "original">>
    /\ Len(focus_classes) >= 2
    /\ \E c \in DOMAIN focus_methods : focus_methods[c] # classes[c].methods
    /\ DOMAIN all_focus_methods # {}
    /\ classes = MergedTable(Len(input_files))

\* C14 (as claimed): within one top-level call no class has its bases list
\* iterated more than once, the starting class on a cycle included.
GabExpandsOnce == \A c \in DOMAIN gab_expanded : gab_expanded[c] <= 1

\* C15 (as claimed): on files given as trees, whatever the base expressions
\* of their class declarations are (names, dotted names, calls, subscripts,
\* attributes of those), extraction raises nothing and no stored bases list
\* holds None.
NonNameBasesDropped ==
    (\A i \in 1..Len(input_files) : input_files[i].status = "parsed") =>
        /\ ~(raised # "none" /\ ~ExtractionOver)
        /\ \A c \in DOMAIN classes : None \notin Range(classes[c].bases)

\* The focus names are pairwise distinct and all classes of the table.
FocusDistinctAndPresent ==
    /\ \A i, j \in 1..Len(focus_classes) : i # j => focus_classes[i] # focus_classes[j]
    /\ Range(focus_classes) \subseteq DOMAIN classes

\* The union of the sets a shared map records under the combinations that
\* name c.
SharedWith(c, map) == UNION {map[combo] : combo \in {k \in DOMAIN map : c \in Range(k)}}

\* C16: with pairwise distinct focus names that are all in the table, once
\* the unique maps are computed, for every focus class the unique set and the
\* union of the shared sets of the recorded combinations that name it are
\* disjoint and together make up its effective set; methods and variables
\* separately, in main's maps and in those of the renderer called last.
UniqueAndSharedPartition ==
    (AfterUnique /\ FocusDistinctAndPresent) =>
        \A c \in Range(focus_classes) :
            /\ unique_methods[c] \cap SharedWith(c, all_focus_methods) = {}
            /\ unique_methods[c] \cup SharedWith(c, all_focus_methods) = EffectiveMethods(c)
            /\ unique_variables[c] \cap SharedWith(c, all_focus_variables) = {}
            /\ unique_variables[c] \cup SharedWith(c, all_focus_variables)
                  = EffectiveVariables(c)
            /\ viz.renderer # "none" =>
                  /\ viz.raised = "none"
                  /\ viz.unique_methods[c] \cap SharedWith(c, viz.all_focus_methods) = {}
                  /\ viz.unique_methods[c] \cup SharedWith(c, viz.all_focus_methods)
                        = EffectiveMethods(c)
                  /\ viz.unique_variables[c] \cap SharedWith(c, viz.all_focus_variables) = {}
                  /\ viz.unique_variables[c] \cup SharedWith(c, viz.all_focus_variables)
                        = EffectiveVariables(c)

\* C16 witness: a finished run over three distinct focus classes of the
\* table in which one class has a unique method next to a method it shares
\* with one other class only.
PartitionWithPairOnly ==
    /\ pc = "done"
    /\ rendered = <<"enhanced", "original">>
    /\ Len(focus_classes) = 3
    /\ FocusDistinctAndPresent
    /\ \E c \in Range(focus_classes) :
          /\ unique_methods[c] # {}
          /\ \E combo \in DOMAIN all_focus_methods :
                /\ Len(combo) = 2
                /\ c \in Range(combo)
                /\ all_focus_methods[combo] \cap
                      UNION {all_focus_methods[k] :
                                k \in {k \in DOMAIN all_focus_methods : Len(k) = 3}} = {}

============================================================================
